---- MODULE Spec2Model ----
(***************************************************************************)
(* webp2mp4 (main.go): one run of the program, from the package init       *)
(* dependency check to process exit.  The external processes (ffmpeg,      *)
(* ImageMagick convert), the image-header probes and the filesystem are    *)
(* the environment: their outcomes are chosen nondeterministically.        *)
(* Every external-process invocation is appended to `log`.                 *)
(***************************************************************************)
EXTENDS Integers, Sequences, FiniteSets

\* Bounds of the model
MaxDim == 4        \* image widths / heights range over 1..MaxDim
MaxFrames == 2     \* an extraction leaves 0..MaxFrames frame files

Dims == 1..MaxDim
ExitCodes == {0, 1}          \* 1 stands for every non-zero exit status
Methods == {"auto", "extract", "direct", "other"}

\* error values returned by the functions ("nil" is success, "none" = not returned)
NoRet == "none"
Nil == "nil"
ErrNoInput == "input file does not exist"
ErrTempDir == "failed to create temp directory"
ErrExtract == "failed to extract frames"
ErrNoFrames == "no frames extracted from WebP"
ErrDims == "failed to get frame dimensions"
ErrCreate == "ffmpeg failed to create video"
ErrDirectOutput == "ffmpeg failed (with output)"
ErrDirectRun == "ffmpeg failed: exec: already started"

VARIABLES
    depsOK,      \* ffmpeg is found in PATH (checkDependencies)
    input,       \* the -i flag is given (input != "")
    fileExists,  \* os.Stat(input) finds the file
    method,      \* the -method flag
    verbose,     \* the -v flag
    trueW,       \* true canvas width of the input image
    trueH,       \* true canvas height of the input image
    pc,          \* position of the program
    log,         \* external-process invocations, in start order
    tempDir,     \* scratch directory: "none", "exists", "removed"
    nfiles,      \* frame_*.png files currently in the scratch directory
    width,       \* width read by convertViaExtraction from the first frame
    height,      \* height read by convertViaExtraction from the first frame
    directCalls, \* calls of convertDirectly
    extractCalls,\* calls of convertViaExtraction
    dirRet,      \* return value of convertDirectly
    extRet,      \* return value of convertViaExtraction
    selRet,      \* return value of convertWebPToMP4
    exitCode,    \* process exit status, -1 while running
    successMsg   \* "Successfully converted" was printed

vars == <<depsOK, input, fileExists, method, verbose, trueW, trueH, pc, log,
          tempDir, nfiles, width, height, directCalls, extractCalls,
          dirRet, extRet, selRet, exitCode, successMsg>>

inputs == <<depsOK, input, fileExists, method, verbose, trueW, trueH>>

----------------------------------------------------------------------------
\* Pure helpers

makeEven_off(n) == IF n % 2 # 0 THEN n - 1 ELSE n

\* makeEven: odd values are rounded up by one
makeEven(n) == IF n % 2 # 0 THEN n + 1 ELSE n

NoFilter == [kind |-> "none", w |-> 0, h |-> 0]
TruncFilter == [kind |-> "trunc", w |-> 0, h |-> 0]

ScaleFilter_always(w, h) ==
    [kind |-> "scale", w |-> makeEven(w), h |-> makeEven(h)]

\* the -vf argument both converters add when the dimensions are known
ScaleFilter(w, h) ==
    IF makeEven(w) # w \/ makeEven(h) # h
    THEN [kind |-> "scale", w |-> makeEven(w), h |-> makeEven(h)]
    ELSE NoFilter

\* the -vf argument of convertDirectly, from the probed width and height
\* (0, 0 when the probe failed)
DirectFilter(w, h) ==
    IF w > 0 /\ h > 0 THEN ScaleFilter(w, h) ELSE TruncFilter

\* what the transcoder is asked to output for an input of iw x ih
OutW(e) == CASE e.vf.kind = "none"  -> e.iw
             [] e.vf.kind = "scale" -> e.vf.w
             [] e.vf.kind = "trunc" -> (e.iw \div 2) * 2
OutH(e) == CASE e.vf.kind = "none"  -> e.ih
             [] e.vf.kind = "scale" -> e.vf.h
             [] e.vf.kind = "trunc" -> (e.ih \div 2) * 2

\* the error convertDirectly returns when its transcoder run exits with `exit`.
\* verbose: cmd.Run is the only run and its error is dropped.
\* non-verbose: cmd.CombinedOutput runs the process; on a zero exit the
\* following cmd.Run is a second Start of the same Cmd, which os/exec refuses.
DirectError(v, exit) ==
    IF v THEN Nil
    ELSE IF exit # 0 THEN ErrDirectOutput ELSE ErrDirectRun

Route_swap(m) ==
    IF m = "auto" THEN "auto" ELSE IF m = "extract" THEN "direct" ELSE "extract"

\* the branch convertWebPToMP4 takes for a -method value
Route(m) ==
    IF m = "auto" THEN "auto" ELSE IF m = "extract" THEN "extract" ELSE "direct"

RemoveAll_leak(d) == d

\* deferred os.RemoveAll(tempDir)
RemoveAll(d) == IF d = "exists" THEN "removed" ELSE d

NeedFallback_always(exit) == TRUE

\* extractCmd.Run() returned an error
NeedFallback(exit) == exit # 0

NoFrames_never(n) == FALSE

\* len(frames) == 0 after the glob
NoFrames(n) == n = 0

Max(a, b) == IF a > b THEN a ELSE b

Entry(conv, tool, op, vf, iw, ih, known, exit, files) ==
    [conv |-> conv, tool |-> tool, op |-> op, vf |-> vf, iw |-> iw, ih |-> ih,
     known |-> known, exit |-> exit, files |-> files]

----------------------------------------------------------------------------
Init ==
    /\ depsOK \in BOOLEAN
    /\ input \in BOOLEAN
    /\ fileExists \in BOOLEAN
    /\ method \in Methods
    /\ verbose \in BOOLEAN
    /\ trueW \in Dims
    /\ trueH \in Dims
    /\ pc = "init"
    /\ log = <<>>
    /\ tempDir = "none"
    /\ nfiles = 0
    /\ width = 0
    /\ height = 0
    /\ directCalls = 0
    /\ extractCalls = 0
    /\ dirRet = NoRet
    /\ extRet = NoRet
    /\ selRet = NoRet
    /\ exitCode = -1
    /\ successMsg = FALSE

\* init(): checkDependencies, exit 1 when ffmpeg is missing
InitDeps ==
    /\ pc = "init"
    /\ IF depsOK
       THEN pc' = "main" /\ UNCHANGED exitCode
       ELSE pc' = "exited" /\ exitCode' = 1
    /\ UNCHANGED <<inputs, log, tempDir, nfiles, width, height, directCalls,
                   extractCalls, dirRet, extRet, selRet, successMsg>>

\* main(), up to the call of convertWebPToMP4
MainStart ==
    /\ pc = "main"
    /\ IF input
       THEN pc' = "select" /\ UNCHANGED exitCode
       ELSE pc' = "exited" /\ exitCode' = 1
    /\ UNCHANGED <<inputs, log, tempDir, nfiles, width, height, directCalls,
                   extractCalls, dirRet, extRet, selRet, successMsg>>

\* convertWebPToMP4: stat of the input and choice of the first converter
Select ==
    /\ pc = "select"
    /\ IF ~fileExists
       THEN /\ selRet' = ErrNoInput
            /\ pc' = "main_ret"
            /\ UNCHANGED <<directCalls, extractCalls>>
       ELSE IF Route(method) = "extract"
       THEN /\ pc' = "extract"
            /\ extractCalls' = extractCalls + 1
            /\ UNCHANGED <<selRet, directCalls>>
       ELSE /\ pc' = "direct"
            /\ directCalls' = directCalls + 1
            /\ UNCHANGED <<selRet, extractCalls>>
    /\ UNCHANGED <<inputs, log, tempDir, nfiles, width, height,
                   dirRet, extRet, exitCode, successMsg>>

\* convertDirectly, whole function
ConvertDirectly ==
    /\ pc = "direct"
    /\ \E probeOK \in BOOLEAN, exit \in ExitCodes :
         LET w == IF probeOK THEN trueW ELSE 0
             h == IF probeOK THEN trueH ELSE 0
         IN /\ log' = Append(log, Entry("direct", "ffmpeg", "encode",
                                        DirectFilter(w, h), trueW, trueH,
                                        w > 0 /\ h > 0, exit, 0))
            /\ dirRet' = DirectError(verbose, exit)
    /\ pc' = "direct_ret"
    /\ UNCHANGED <<inputs, tempDir, nfiles, width, height, directCalls,
                   extractCalls, extRet, selRet, exitCode, successMsg>>

\* convertWebPToMP4 after convertDirectly returned
SelectAfterDirect ==
    /\ pc = "direct_ret"
    /\ IF Route(method) = "auto" /\ dirRet # Nil
       THEN /\ pc' = "extract"
            /\ extractCalls' = extractCalls + 1
            /\ UNCHANGED selRet
       ELSE /\ selRet' = dirRet
            /\ pc' = "main_ret"
            /\ UNCHANGED extractCalls
    /\ UNCHANGED <<inputs, log, tempDir, nfiles, width, height, directCalls,
                   dirRet, extRet, exitCode, successMsg>>

\* convertViaExtraction: ioutil.TempDir and the deferred removal
ExtractTempDir ==
    /\ pc = "extract"
    /\ \E ok \in BOOLEAN :
         IF ok
         THEN tempDir' = "exists" /\ pc' = "e_primary" /\ UNCHANGED extRet
         ELSE extRet' = ErrTempDir /\ pc' = "extract_ret" /\ UNCHANGED tempDir
    /\ UNCHANGED <<inputs, log, nfiles, width, height, directCalls,
                   extractCalls, dirRet, selRet, exitCode, successMsg>>

\* convertViaExtraction: primary extraction, ffmpeg -i input frame_%03d.png
ExtractPrimary ==
    /\ pc = "e_primary"
    /\ \E exit \in ExitCodes, n \in 0..MaxFrames :
         /\ nfiles' = n
         /\ log' = Append(log, Entry("extract", "ffmpeg", "extract", NoFilter,
                                     trueW, trueH, FALSE, exit, n))
         /\ pc' = IF NeedFallback(exit) THEN "e_fallback" ELSE "e_measure"
    /\ UNCHANGED <<inputs, tempDir, width, height, directCalls, extractCalls,
                   dirRet, extRet, selRet, exitCode, successMsg>>

\* convertViaExtraction: fallback extraction, convert input -coalesce
ExtractFallback ==
    /\ pc = "e_fallback"
    /\ \E exit \in ExitCodes, n \in 0..MaxFrames :
         /\ log' = Append(log, Entry("extract", "convert", "coalesce", NoFilter,
                                     trueW, trueH, FALSE, exit, Max(nfiles, n)))
         /\ IF exit # 0
            THEN /\ extRet' = ErrExtract
                 /\ tempDir' = RemoveAll(tempDir)
                 /\ nfiles' = 0
                 /\ pc' = "extract_ret"
            ELSE /\ nfiles' = Max(nfiles, n)
                 /\ pc' = "e_measure"
                 /\ UNCHANGED <<extRet, tempDir>>
    /\ UNCHANGED <<inputs, width, height, directCalls, extractCalls,
                   dirRet, selRet, exitCode, successMsg>>

\* convertViaExtraction: glob of the frames and dimensions of the first one
ExtractMeasure ==
    /\ pc = "e_measure"
    /\ IF NoFrames(nfiles)
       THEN /\ extRet' = ErrNoFrames
            /\ tempDir' = RemoveAll(tempDir)
            /\ nfiles' = 0
            /\ pc' = "extract_ret"
            /\ UNCHANGED <<width, height>>
       ELSE \E ok \in BOOLEAN, fw \in Dims, fh \in Dims :
              IF ok
              THEN /\ width' = fw
                   /\ height' = fh
                   /\ pc' = "e_reassemble"
                   /\ UNCHANGED <<extRet, tempDir, nfiles>>
              ELSE /\ extRet' = ErrDims
                   /\ tempDir' = RemoveAll(tempDir)
                   /\ nfiles' = 0
                   /\ pc' = "extract_ret"
                   /\ UNCHANGED <<width, height>>
    /\ UNCHANGED <<inputs, log, directCalls, extractCalls,
                   dirRet, selRet, exitCode, successMsg>>

\* convertViaExtraction: reassembly, ffmpeg -framerate fps -i frame_%03d.png
ExtractReassemble ==
    /\ pc = "e_reassemble"
    /\ \E exit \in ExitCodes :
         /\ log' = Append(log, Entry("extract", "ffmpeg", "reassemble",
                                     ScaleFilter(width, height), width, height,
                                     TRUE, exit, nfiles))
         /\ extRet' = IF exit # 0 THEN ErrCreate ELSE Nil
    /\ tempDir' = RemoveAll(tempDir)
    /\ nfiles' = 0
    /\ pc' = "extract_ret"
    /\ UNCHANGED <<inputs, width, height, directCalls, extractCalls,
                   dirRet, selRet, exitCode, successMsg>>

\* convertWebPToMP4 after convertViaExtraction returned
SelectAfterExtract ==
    /\ pc = "extract_ret"
    /\ selRet' = extRet
    /\ pc' = "main_ret"
    /\ UNCHANGED <<inputs, log, tempDir, nfiles, width, height, directCalls,
                   extractCalls, dirRet, extRet, exitCode, successMsg>>

\* main() after convertWebPToMP4 returned: log.Fatal or the success message
MainFinish ==
    /\ pc = "main_ret"
    /\ IF selRet # Nil
       THEN exitCode' = 1 /\ UNCHANGED successMsg
       ELSE exitCode' = 0 /\ successMsg' = TRUE
    /\ pc' = "exited"
    /\ UNCHANGED <<inputs, log, tempDir, nfiles, width, height, directCalls,
                   extractCalls, dirRet, extRet, selRet>>

Next ==
    \/ InitDeps
    \/ MainStart
    \/ Select
    \/ ConvertDirectly
    \/ SelectAfterDirect
    \/ ExtractTempDir
    \/ ExtractPrimary
    \/ ExtractFallback
    \/ ExtractMeasure
    \/ ExtractReassemble
    \/ SelectAfterExtract
    \/ MainFinish

Spec == Init /\ [][Next]_vars

----------------------------------------------------------------------------
\* Properties

Odd(n) == n % 2 = 1
Ops(op) == {i \in DOMAIN log : log[i].op = op}
Encodes == Ops("encode") \cup Ops("reassemble")
Extractions == Ops("extract") \cup Ops("coalesce")

\* C1: in auto mode with an existing input, a transcoder run of the Direct
\* Converter that exits zero means the Extraction Converter is never called
\* and the call succeeds; a run that exits non-zero means the Extraction
\* Converter is called exactly once and its result is the result of the call.
C1_AutoFallback ==
    (selRet # NoRet /\ fileExists /\ method = "auto") =>
        \A i \in Ops("encode") :
            /\ log[i].exit = 0 => (extractCalls = 0 /\ selRet = Nil)
            /\ log[i].exit # 0 => (extractCalls = 1 /\ selRet = extRet)

\* C2: once convertViaExtraction has returned, the scratch directory it
\* created does not exist and holds no frame files, whatever the exit path.
C2_ScratchRemoved ==
    pc \in {"extract_ret", "main_ret", "exited"} =>
        (tempDir # "exists" /\ nfiles = 0)

C2_Witness ==
    /\ extRet = ErrCreate
    /\ tempDir = "removed"
    /\ Ops("reassemble") # {}

\* C3: when the transcoder of convertDirectly exits non-zero, convertDirectly
\* returns an error, verbose or not.
C3_NonZeroExitFails ==
    dirRet # NoRet =>
        \A i \in Ops("encode") : log[i].exit # 0 => dirRet # Nil

\* C4 (as stated): for every encode invocation whose input has an odd
\* dimension, the output dimensions requested are both even and each is the
\* original or the original plus one.
C4_Original ==
    \A i \in Encodes :
        (Odd(log[i].iw) \/ Odd(log[i].ih)) =>
            /\ OutW(log[i]) % 2 = 0 /\ OutH(log[i]) % 2 = 0
            /\ OutW(log[i]) \in {log[i].iw, log[i].iw + 1}
            /\ OutH(log[i]) \in {log[i].ih, log[i].ih + 1}

\* C4 (amended): for every encode invocation whose input has an odd
\* dimension, the output dimensions requested are both even; each is the
\* original or the original plus one when the converter read the dimensions,
\* and the original or the original minus one when the Direct Converter's
\* probe failed (only the Direct Converter encodes without dimensions).
C4_EvenCorrection ==
    \A i \in Encodes :
        (Odd(log[i].iw) \/ Odd(log[i].ih)) =>
            /\ OutW(log[i]) % 2 = 0 /\ OutH(log[i]) % 2 = 0
            /\ log[i].known =>
                   /\ log[i].vf.kind = "scale"
                   /\ OutW(log[i]) \in {log[i].iw, log[i].iw + 1}
                   /\ OutH(log[i]) \in {log[i].ih, log[i].ih + 1}
            /\ ~log[i].known =>
                   /\ log[i].conv = "direct"
                   /\ log[i].vf.kind = "trunc"
                   /\ OutW(log[i]) \in {log[i].iw, log[i].iw - 1}
                   /\ OutH(log[i]) \in {log[i].ih, log[i].ih - 1}

C4_Witness ==
    \E i \in Encodes :
        /\ log[i].known
        /\ Odd(log[i].iw) /\ ~Odd(log[i].ih)
        /\ log[i].vf.kind = "scale"
        /\ log[i].vf.w = log[i].iw + 1 /\ log[i].vf.h = log[i].ih

\* C5 (as stated): an encode invocation whose input has two even dimensions
\* carries no -vf filter, whatever the outcome of the dimension probe.
C5_Original ==
    \A i \in Encodes :
        (~Odd(log[i].iw) /\ ~Odd(log[i].ih)) => log[i].vf.kind = "none"

\* C5 (amended): an encode invocation whose input has two even dimensions
\* carries no -vf filter when the converter read the dimensions; when the
\* Direct Converter's probe failed it carries the generic round-down filter,
\* which leaves even dimensions unchanged.
C5_NoFilterWhenEven ==
    \A i \in Encodes :
        (~Odd(log[i].iw) /\ ~Odd(log[i].ih)) =>
            /\ log[i].known => log[i].vf.kind = "none"
            /\ ~log[i].known =>
                   /\ log[i].conv = "direct"
                   /\ log[i].vf.kind = "trunc"
            /\ OutW(log[i]) = log[i].iw /\ OutH(log[i]) = log[i].ih

C5_Witness ==
    \E i \in Ops("reassemble"), j \in Ops("encode") :
        /\ ~Odd(log[i].iw) /\ ~Odd(log[i].ih) /\ log[i].vf.kind = "none"
        /\ ~Odd(log[j].iw) /\ ~Odd(log[j].ih) /\ log[j].known
        /\ log[j].vf.kind = "none"

\* the scratch directory held no frame file after the last extraction run
ZeroFrames ==
    /\ Ops("extract") # {}
    /\ \A i \in Extractions :
           (\A j \in Extractions : j <= i) => log[i].files = 0

\* C6 (as stated): when convertViaExtraction returns after both extraction
\* methods left zero frame files, it returns the no-frames-extracted error
\* and no reassembly was invoked.
C6_Original ==
    (extRet # NoRet /\ ZeroFrames) =>
        (extRet = ErrNoFrames /\ Ops("reassemble") = {})

\* C6 (amended): when convertViaExtraction returns after the extraction
\* methods left zero frame files, no reassembly was invoked and it returns
\* the failed-to-extract-frames error when the fallback process exited
\* non-zero, and the no-frames-extracted error otherwise.
C6_NoFramesFails ==
    (extRet # NoRet /\ ZeroFrames) =>
        /\ Ops("reassemble") = {}
        /\ extRet = IF \E i \in Ops("coalesce") : log[i].exit # 0
                    THEN ErrExtract ELSE ErrNoFrames

C6_Witness ==
    /\ extRet = ErrNoFrames
    /\ ZeroFrames
    /\ \E i \in Ops("coalesce") : log[i].exit = 0

\* the last encode invocation of the run exited zero
ConversionSucceeded ==
    /\ Encodes # {}
    /\ \A i \in Encodes : (\A j \in Encodes : j <= i) => log[i].exit = 0

\* C7: the process exits 0 only when the conversion succeeded, and exits 1
\* when the input flag is missing, the dependency check fails or the
\* conversion failed; the success message goes with exit code 0 only.
C7_ExitCodes ==
    pc = "exited" =>
        /\ exitCode \in {0, 1}
        /\ exitCode = 0 => ConversionSucceeded
        /\ (~depsOK \/ ~input \/ ~ConversionSucceeded) => exitCode = 1
        /\ successMsg <=> exitCode = 0

\* C8: with an existing input, -method direct never calls the Extraction
\* Converter, creates no scratch directory and runs no image tool, and
\* -method extract never calls the Direct Converter; convertWebPToMP4 calls
\* the chosen converter once and returns its result as it is.
C8_SingleConverter ==
    /\ (fileExists /\ method = "direct") =>
           /\ extractCalls = 0 /\ extRet = NoRet
           /\ tempDir = "none"
           /\ \A i \in DOMAIN log :
                  log[i].conv = "direct" /\ log[i].tool = "ffmpeg"
           /\ selRet # NoRet => (directCalls = 1 /\ selRet = dirRet)
    /\ (fileExists /\ method = "extract") =>
           /\ directCalls = 0 /\ dirRet = NoRet
           /\ \A i \in DOMAIN log : log[i].conv = "extract"
           /\ selRet # NoRet => (extractCalls = 1 /\ selRet = extRet)

C8_Witness ==
    /\ pc = "exited"
    /\ fileExists /\ method = "extract"
    /\ extractCalls = 1 /\ selRet = Nil
    /\ Ops("reassemble") # {}

\* C9: every call of convertDirectly starts the transcoder exactly once, and
\* when that run exits zero the call returns no error, verbose or not.
C9_OneRunZeroSucceeds ==
    dirRet # NoRet =>
        /\ Cardinality(Ops("encode")) = 1
        /\ \A i \in Ops("encode") : log[i].exit = 0 => dirRet = Nil

\* C10: in convertViaExtraction the primary extraction is the first process;
\* the image-tool fallback runs at most once, right after a primary
\* extraction that failed; the reassembly runs at most once, as the last
\* process, right after an extraction that exited zero and left at least one
\* frame file, and with the dimensions read from the first frame; a failed
\* dimension read starts no reassembly.
C10_ExtractionOrder ==
    /\ Cardinality(Ops("extract")) <= 1
    /\ Cardinality(Ops("coalesce")) <= 1
    /\ Cardinality(Ops("reassemble")) <= 1
    /\ \A i \in Ops("coalesce") \cup Ops("reassemble") :
           \E j \in Ops("extract") : j < i
    /\ \A i \in Ops("coalesce") :
           i > 1 /\ log[i-1].op = "extract" /\ log[i-1].exit # 0
    /\ \A i \in Ops("reassemble") :
           /\ i = Len(log) /\ i > 1
           /\ log[i-1].op \in {"extract", "coalesce"}
           /\ log[i-1].exit = 0
           /\ log[i-1].files >= 1
           /\ width > 0 /\ height > 0
           /\ log[i].iw = width /\ log[i].ih = height
    /\ extRet = ErrDims => Ops("reassemble") = {}
    /\ pc = "e_fallback" => (Ops("coalesce") = {} /\ Ops("reassemble") = {})
    /\ pc = "e_reassemble" => Ops("reassemble") = {}

C10_Witness ==
    \E i \in Ops("reassemble") :
        /\ log[i-1].op = "coalesce"
        /\ log[i-2].op = "extract" /\ log[i-2].exit # 0

====
